---- MODULE Spec2Model ----
(***************************************************************************)
(* Model of backend/backend_main.py: the POST /api/emissions handler       *)
(* calculate_emissions and the module-level EMISSION_FACTORS table.        *)
(*                                                                         *)
(* Each handler invocation is a process with its own frame (results,       *)
(* total_co2_kg, ...).  The handler is cut at its loop iterations, which   *)
(* is finer than any scheduling the event loop can produce (the coroutine  *)
(* has no await), so every real interleaving is a behaviour of the model.  *)
(*                                                                         *)
(* Python floats are modelled as exact rationals [num, den] in lowest      *)
(* terms: the model computes the real-number value of each expression and  *)
(* leaves IEEE-754 rounding out.  Python ints are unbounded.               *)
(* Strings that the code transforms (fuel_type, through str.lower) are     *)
(* sequences of characters; strings it only copies are TLA+ strings.       *)
(***************************************************************************)
EXTENDS Integers, Sequences, FiniteSets, TLC

(***************************************************************************)
(* Bounds of the model.                                                    *)
(***************************************************************************)
NumProcs == 2      \* handler invocations that can be in flight together
MaxVehicles == 2   \* longest vehicle list in a drawn request
MaxCount == 2      \* largest vehicle count in a drawn record

Procs == 1..NumProcs

(***************************************************************************)
(* Real arithmetic on rationals in lowest terms with a positive den.       *)
(***************************************************************************)
Abs(x) == IF x < 0 THEN -x ELSE x

RECURSIVE GCD(_, _)
GCD(a, b) == IF b = 0 THEN a ELSE GCD(b, a % b)

Rat(n, d) ==
  LET s == IF d < 0 THEN -1 ELSE 1
      g == GCD(Abs(n), Abs(d))
  IN  [num |-> (s * n) \div g, den |-> (s * d) \div g]

R(n) == [num |-> n, den |-> 1]

Zero == R(0)

RNeg(a) == [num |-> -a.num, den |-> a.den]

RAdd(a, b) ==
  LET g == GCD(a.den, b.den)
  IN  Rat(a.num * (b.den \div g) + b.num * (a.den \div g), (a.den \div g) * b.den)

RMul(a, b) ==
  LET g1 == GCD(Abs(a.num), b.den)
      g2 == GCD(Abs(b.num), a.den)
  IN  Rat((a.num \div g1) * (b.num \div g2), (a.den \div g2) * (b.den \div g1))

\* 1/b for b # 0
RInv(b) == IF b.num < 0 THEN [num |-> -b.den, den |-> -b.num]
                        ELSE [num |-> b.den, den |-> b.num]

RDiv(a, b) == RMul(a, RInv(b))

\* a ** n for an int n (a negative n inverts, as float ** int does)
RECURSIVE RPow(_, _)
RPow(a, n) == IF n = 0 THEN R(1)
              ELSE IF n < 0 THEN RInv(RPow(a, -n))
              ELSE RMul(a, RPow(a, n - 1))

RSub(a, b) == RAdd(a, RNeg(b))
RLeq(a, b) == RSub(b, a).num >= 0
RAbs(a) == [num |-> Abs(a.num), den |-> a.den]

\* Python truthiness of a number: 0 and 0.0 are false
Truthy(x) == x.num # 0

\* what a division by zero yields: the ZeroDivisionError fault
ZeroDivision == [num |-> 1, den |-> 0]

(***************************************************************************)
(* str.lower on the characters the model uses.                             *)
(***************************************************************************)
UpperToLower ==
  ("A" :> "a") @@ ("B" :> "b") @@ ("C" :> "c") @@ ("D" :> "d") @@ ("E" :> "e") @@
  ("F" :> "f") @@ ("G" :> "g") @@ ("H" :> "h") @@ ("I" :> "i") @@ ("J" :> "j") @@
  ("K" :> "k") @@ ("L" :> "l") @@ ("M" :> "m") @@ ("N" :> "n") @@ ("O" :> "o") @@
  ("P" :> "p") @@ ("Q" :> "q") @@ ("R" :> "r") @@ ("S" :> "s") @@ ("T" :> "t") @@
  ("U" :> "u") @@ ("V" :> "v") @@ ("W" :> "w") @@ ("X" :> "x") @@ ("Y" :> "y") @@
  ("Z" :> "z")

LowerChar(c) == IF c \in DOMAIN UpperToLower THEN UpperToLower[c] ELSE c

Lower(s) == [k \in 1..Len(s) |-> LowerChar(s[k])]

(***************************************************************************)
(* Module-level constants of the program.                                  *)
(***************************************************************************)
petrol == <<"p", "e", "t", "r", "o", "l">>
diesel == <<"d", "i", "e", "s", "e", "l">>

PetrolFactor == Rat(23477, 10000)
DieselFactor == Rat(26893, 10000)

\* EMISSION_FACTORS as the module body builds it
FactorTable == (petrol :> PetrolFactor) @@ (diesel :> DieselFactor)

ozone_factor == Rat(12, 100)
climate_factor == Rat(8, 100)
glacier_factor == Rat(4, 100)

BaseYear == 2025
Thousand == 1000
Hundred == 100


(***************************************************************************)
(* Line 41: EMISSION_FACTORS[v.fuel_type.lower()] either yields the factor *)
(* or raises KeyError carrying the lowercased key.                         *)
(***************************************************************************)
\* a lookup that compares the submitted spelling with the keys
FactorCaseSensitive(table, fuel_type) ==
  IF fuel_type \in DOMAIN table
    THEN [ok |-> TRUE, ef |-> table[fuel_type]]
    ELSE [ok |-> FALSE, key |-> fuel_type]

\* a lookup with a fallback factor, as dict.get(key, 0) would be
FactorOrDefault(table, fuel_type) ==
  IF Lower(fuel_type) \in DOMAIN table
    THEN [ok |-> TRUE, ef |-> table[Lower(fuel_type)]]
    ELSE [ok |-> TRUE, ef |-> Zero]

FactorLookup(table, fuel_type) ==
  IF Lower(fuel_type) \in DOMAIN table
    THEN [ok |-> TRUE, ef |-> table[Lower(fuel_type)]]
    ELSE [ok |-> FALSE, key |-> Lower(fuel_type)]

\* line 42
TotalFuel(v) == RMul(R(v.count), v.liters_per_vehicle)

\* line 43
Co2Kg(v, ef) == RMul(TotalFuel(v), ef)

\* an entry that stores the normalized fuel type
ResultEntryLowered(v, ef) ==
  [vehicle_type |-> v.vehicle_type,
   fuel_type    |-> Lower(v.fuel_type),
   count        |-> v.count,
   total_fuel   |-> TotalFuel(v),
   co2_kg       |-> Co2Kg(v, ef)]

\* lines 44-50: the dict appended to results
ResultEntry(v, ef) ==
  [vehicle_type |-> v.vehicle_type,
   fuel_type    |-> v.fuel_type,
   count        |-> v.count,
   total_fuel   |-> TotalFuel(v),
   co2_kg       |-> Co2Kg(v, ef)]

\* "total_co2_kg = co2_kg" in place of "+="
AccumulateLast(total, co2_kg) == co2_kg

\* line 51
Accumulate(total, co2_kg) == RAdd(total, co2_kg)

\* lines 53 and 61
Tons(kg) == RDiv(kg, R(Thousand))

\* the share taken against the total in kg
PercentOfKg(co2_tons, total_tons) ==
  IF Truthy(total_tons)
    THEN RMul(RDiv(co2_tons, RMul(total_tons, R(Thousand))), R(Hundred))
    ELSE Zero

\* line 62
Percent(co2_tons, total_tons) ==
  IF Truthy(total_tons)
    THEN RMul(RDiv(co2_tons, total_tons), R(Hundred))
    ELSE Zero

\* the impact without the guard: a zero total faults
ImpactUnguarded(co2_tons, factor, total_tons) ==
  IF Truthy(total_tons)
    THEN RMul(RDiv(RMul(co2_tons, factor), total_tons), R(Hundred))
    ELSE ZeroDivision

\* the impact as a share of the record's own emissions
ImpactOfOwnTons(co2_tons, factor, total_tons) ==
  IF Truthy(total_tons)
    THEN RMul(RMul(co2_tons, factor), R(Hundred))
    ELSE Zero

\* lines 66-68
Impact(co2_tons, factor, total_tons) ==
  IF Truthy(total_tons)
    THEN RMul(RDiv(RMul(co2_tons, factor), total_tons), R(Hundred))
    ELSE Zero

\* lines 61-69: r.update({...})
Updated(r, total_tons) ==
  LET co2_tons == Tons(r.co2_kg)
  IN  [vehicle_type           |-> r.vehicle_type,
       fuel_type              |-> r.fuel_type,
       count                  |-> r.count,
       total_fuel             |-> r.total_fuel,
       co2_kg                 |-> r.co2_kg,
       co2_tons               |-> co2_tons,
       percent_of_total       |-> Percent(co2_tons, total_tons),
       ozone_impact_percent   |-> Impact(co2_tons, ozone_factor, total_tons),
       climate_change_percent |-> Impact(co2_tons, climate_factor, total_tons),
       glacier_melt_percent   |-> Impact(co2_tons, glacier_factor, total_tons)]

\* max(data.year - 2025, 1): the floor set one too high
YearsAheadAtLeastOne(year) == IF year - BaseYear > 1 THEN year - BaseYear ELSE 1

\* line 72
YearsAhead(year) == IF year - BaseYear > 0 THEN year - BaseYear ELSE 0

\* a yearly decline in place of the growth
DeclineBase == RSub(R(1), Rat(5, 1000))

\* line 73: (1 + 0.005)
GrowthBase == RAdd(R(1), Rat(5, 1000))

\* line 73
Projected(total_tons, year) == RMul(total_tons, RPow(GrowthBase, YearsAhead(year)))

\* lines 75-81
Response(data, results, total_tons) ==
  [location           |-> data.location,
   year               |-> data.year,
   vehicle_results    |-> results,
   total_co2_tons     |-> total_tons,
   projected_co2_tons |-> Projected(total_tons, data.year)]

(***************************************************************************)
(* calculate_emissions as a function of its request, run to completion.    *)
(***************************************************************************)
\* lines 40-51 from record k on
RECURSIVE FirstLoop(_, _, _, _, _)
FirstLoop(table, vehicles, k, results, total_kg) ==
  IF k > Len(vehicles)
    THEN [ok |-> TRUE, results |-> results, total_co2_kg |-> total_kg]
    ELSE LET f == FactorLookup(table, vehicles[k].fuel_type)
         IN  IF f.ok
               THEN FirstLoop(table, vehicles, k + 1,
                              Append(results, ResultEntry(vehicles[k], f.ef)),
                              Accumulate(total_kg, Co2Kg(vehicles[k], f.ef)))
               ELSE [ok |-> FALSE, key |-> f.key]

\* lines 35-81
RunAlone(table, data) ==
  LET first == FirstLoop(table, data.vehicles, 1, <<>>, Zero)
  IN  IF first.ok
        THEN LET total_tons == Tons(first.total_co2_kg)
                 results == [k \in 1..Len(first.results) |->
                               Updated(first.results[k], total_tons)]
             IN  [kind |-> "returned", response |-> Response(data, results, total_tons)]
        ELSE [kind |-> "raised", error |-> [type |-> "KeyError", key |-> first.key]]

(***************************************************************************)
(* Requests drawn by the initial states.                                   *)
(***************************************************************************)
Petrol == <<"P", "e", "t", "r", "o", "l">>
PETROL == <<"P", "E", "T", "R", "O", "L">>
hydrogen == <<"h", "y", "d", "r", "o", "g", "e", "n">>
Hydrogen == <<"H", "y", "d", "r", "o", "g", "e", "n">>

FuelTypes == {petrol, Petrol, PETROL, diesel, hydrogen, Hydrogen}
VehicleTypes == {"car", "bus"}
Locations == {"X", "Y"}
Counts == {-1} \cup (0..MaxCount)
Liters == {Zero, R(10), R(-10)}
Years == {-1, BaseYear - 1, BaseYear, BaseYear + 1}

Vehicle(vt, c, f, l) ==
  [vehicle_type |-> vt, count |-> c, fuel_type |-> f, liters_per_vehicle |-> l]

Request(vs, loc, y) == [vehicles |-> vs, location |-> loc, year |-> y]

AllRecords ==
  {Vehicle(vt, c, f, l) : vt \in VehicleTypes, c \in Counts, f \in FuelTypes, l \in Liters}

\* every one-record request
SingleRequests ==
  {Request(<<v>>, loc, y) : v \in AllRecords, loc \in Locations, y \in Years}

ListRecords ==
  {v \in AllRecords : v.liters_per_vehicle = R(10) /\ v.fuel_type \notin {PETROL, Hydrogen}}

SeqsUpTo(S, n) == UNION {[1..m -> S] : m \in 0..n}

\* every list of up to MaxVehicles records that consume 10 liters each
ListRequests ==
  {Request(vs, c[1], c[2]) : vs \in SeqsUpTo(ListRecords, MaxVehicles),
                             c \in {<<"X", BaseYear>>, <<"Y", BaseYear + 1>>}}

\* petrol records of 10 tons of CO2 per vehicle, projected over several years
ProjRequests ==
  {Request(vs, "X", y) :
     vs \in SeqsUpTo({Vehicle("car", c, petrol, Rat(100000000, 23477)) : c \in {-1, 0, 1, 2}}, 1),
     y \in {-1, 0, BaseYear - 5, BaseYear, BaseYear + 1, BaseYear + 2, BaseYear + 3}}

\* a petrol and a diesel record with equal co2_kg
EqualShareRequest ==
  Request(<<Vehicle("car", 26893, petrol, R(1)), Vehicle("bus", 23477, diesel, R(1))>>,
          "X", BaseYear)

CalcRequests == SingleRequests \cup ListRequests \cup ProjRequests \cup {EqualShareRequest}

\* requests handled side by side
ConcRequests ==
  {Request(<<>>, "X", BaseYear),
   Request(<<Vehicle("car", 2, petrol, R(10))>>, "X", BaseYear),
   Request(<<Vehicle("car", 1, Petrol, R(10)), Vehicle("bus", 1, diesel, R(10))>>,
           "Y", BaseYear + 1),
   Request(<<Vehicle("bus", 2, diesel, R(10)), Vehicle("car", 1, hydrogen, R(10))>>,
           "Y", BaseYear)}

(***************************************************************************)
(* State.                                                                  *)
(***************************************************************************)
VARIABLES
  EMISSION_FACTORS,   \* the module-level table
  data,               \* per invocation: the request (NoRequest: none)
  pc,                 \* per invocation: position in calculate_emissions
  i,                  \* per invocation: index of the record the loop is at
  results,            \* per invocation: the local list results
  total_co2_kg,       \* per invocation: the local accumulator
  total_co2_tons,     \* per invocation: the local total (Zero until line 53)
  response,           \* per invocation: the returned dict (None: none)
  error               \* per invocation: the raised exception (None: none)

vars == <<EMISSION_FACTORS, data, pc, i, results, total_co2_kg, total_co2_tons,
          response, error>>

None == [none |-> TRUE]
NoRequest == Request(<<>>, "", 0)

Active(p) == pc[p] # "idle"

\* lines 36-37 done for every invocation in flight
Frames(reqs, active) ==
  /\ EMISSION_FACTORS = FactorTable
  /\ data = reqs
  /\ pc = [p \in Procs |-> IF p \in active THEN "loop1" ELSE "idle"]
  /\ i = [p \in Procs |-> 1]
  /\ results = [p \in Procs |-> <<>>]
  /\ total_co2_kg = [p \in Procs |-> Zero]
  /\ total_co2_tons = [p \in Procs |-> Zero]
  /\ response = [p \in Procs |-> None]
  /\ error = [p \in Procs |-> None]

\* NumProcs requests in flight together
Init == \E reqs \in [Procs -> ConcRequests] : Frames(reqs, Procs)

\* one request, drawn from the wide set
InitCalc ==
  \E r \in CalcRequests :
    Frames([p \in Procs |-> IF p = 1 THEN r ELSE NoRequest], {1})

\* an accumulator kept at module level: one total for all invocations
LoopRecordSharedTotal(p) ==
  /\ pc[p] = "loop1"
  /\ i[p] <= Len(data[p].vehicles)
  /\ LET v == data[p].vehicles[i[p]]
         f == FactorLookup(EMISSION_FACTORS, v.fuel_type)
     IN  /\ f.ok
         /\ results' = [results EXCEPT ![p] = Append(@, ResultEntry(v, f.ef))]
         /\ total_co2_kg' = [q \in Procs |-> Accumulate(total_co2_kg[q], Co2Kg(v, f.ef))]
  /\ i' = [i EXCEPT ![p] = @ + 1]
  /\ UNCHANGED <<EMISSION_FACTORS, data, pc, total_co2_tons, response, error>>

\* lines 40-51, one iteration whose lookup succeeds
LoopRecord(p) ==
  /\ pc[p] = "loop1"
  /\ i[p] <= Len(data[p].vehicles)
  /\ LET v == data[p].vehicles[i[p]]
         f == FactorLookup(EMISSION_FACTORS, v.fuel_type)
     IN  /\ f.ok
         /\ results' = [results EXCEPT ![p] = Append(@, ResultEntry(v, f.ef))]
         /\ total_co2_kg' = [total_co2_kg EXCEPT ![p] = Accumulate(@, Co2Kg(v, f.ef))]
  /\ i' = [i EXCEPT ![p] = @ + 1]
  /\ UNCHANGED <<EMISSION_FACTORS, data, pc, total_co2_tons, response, error>>

\* line 41 raising: the exception leaves the handler, nothing is returned
RaiseKeyError(p) ==
  /\ pc[p] = "loop1"
  /\ i[p] <= Len(data[p].vehicles)
  /\ LET f == FactorLookup(EMISSION_FACTORS, data[p].vehicles[i[p]].fuel_type)
     IN  /\ ~f.ok
         /\ error' = [error EXCEPT ![p] = [type |-> "KeyError", key |-> f.key]]
  /\ pc' = [pc EXCEPT ![p] = "raised"]
  /\ UNCHANGED <<EMISSION_FACTORS, data, i, results, total_co2_kg, total_co2_tons,
                 response>>

\* the first loop ends; line 53
Aggregate(p) ==
  /\ pc[p] = "loop1"
  /\ i[p] > Len(data[p].vehicles)
  /\ total_co2_tons' = [total_co2_tons EXCEPT ![p] = Tons(total_co2_kg[p])]
  /\ pc' = [pc EXCEPT ![p] = "loop2"]
  /\ i' = [i EXCEPT ![p] = 1]
  /\ UNCHANGED <<EMISSION_FACTORS, data, results, total_co2_kg, response, error>>

\* lines 60-69, one iteration
LoopPercent(p) ==
  /\ pc[p] = "loop2"
  /\ i[p] <= Len(results[p])
  /\ results' = [results EXCEPT ![p][i[p]] = Updated(@, total_co2_tons[p])]
  /\ i' = [i EXCEPT ![p] = @ + 1]
  /\ UNCHANGED <<EMISSION_FACTORS, data, pc, total_co2_kg, total_co2_tons, response,
                 error>>

\* the second loop ends; lines 72-81
Return(p) ==
  /\ pc[p] = "loop2"
  /\ i[p] > Len(results[p])
  /\ response' = [response EXCEPT ![p] = Response(data[p], results[p], total_co2_tons[p])]
  /\ pc' = [pc EXCEPT ![p] = "returned"]
  /\ UNCHANGED <<EMISSION_FACTORS, data, i, results, total_co2_kg, total_co2_tons,
                 error>>

Next ==
  \E p \in Procs :
    \/ LoopRecord(p)
    \/ RaiseKeyError(p)
    \/ Aggregate(p)
    \/ LoopPercent(p)
    \/ Return(p)

Spec == Init /\ [][Next]_vars

SpecCalc == InitCalc /\ [][Next]_vars

(***************************************************************************)
(* Vocabulary of the properties.                                           *)
(***************************************************************************)
Returned(p) == pc[p] = "returned"
Raised(p) == pc[p] = "raised"

\* the spellings of the two keys of the Emission Factor Table
PetrolSpellings == {petrol, Petrol, PETROL}
DieselSpellings == {diesel}
KnownFuel(fuel_type) == fuel_type \in PetrolSpellings \cup DieselSpellings

SpecFactor(fuel_type) ==
  IF fuel_type \in PetrolSpellings THEN Rat(23477, 10000) ELSE Rat(26893, 10000)

AllKnown(vehicles) == \A k \in 1..Len(vehicles) : KnownFuel(vehicles[k].fuel_type)

\* index of the first record with an unknown fuel type
FirstUnknown(vehicles) ==
  CHOOSE k \in 1..Len(vehicles) :
    /\ ~KnownFuel(vehicles[k].fuel_type)
    /\ \A j \in 1..(k - 1) : KnownFuel(vehicles[j].fuel_type)

RECURSIVE SumCo2Kg(_)
SumCo2Kg(rs) == IF rs = <<>> THEN Zero ELSE RAdd(rs[1].co2_kg, SumCo2Kg(Tail(rs)))

RECURSIVE SumPercent(_)
SumPercent(rs) ==
  IF rs = <<>> THEN Zero ELSE RAdd(rs[1].percent_of_total, SumPercent(Tail(rs)))

NonNegative(vehicles) ==
  \A k \in 1..Len(vehicles) :
    vehicles[k].count >= 0 /\ vehicles[k].liters_per_vehicle.num >= 0

(***************************************************************************)
(* C1: a request with a record whose fuel type is not in the table never   *)
(* gets past its first loop: it is aborted at the first such record with   *)
(* an error carrying that record's lowercased fuel type, no response (not  *)
(* even the entries of the earlier records) is returned, and no factor is  *)
(* substituted.                                                            *)
(***************************************************************************)
C1_UnknownFuelAborts ==
  \A p \in Procs :
    (Active(p) /\ ~AllKnown(data[p].vehicles)) =>
      LET k == FirstUnknown(data[p].vehicles)
      IN  /\ pc[p] \in {"loop1", "raised"}
          /\ response[p] = None
          /\ i[p] <= k
          /\ Len(results[p]) < k
          /\ Raised(p) =>
               /\ i[p] = k
               /\ error[p] # None
               /\ data[p].vehicles[k].fuel_type \in {hydrogen, Hydrogen}
               /\ error[p].key = hydrogen

C1_Witness ==
  \E p \in Procs :
    /\ Raised(p)
    /\ Len(data[p].vehicles) = 2
    /\ Len(results[p]) = 1
    /\ data[p].vehicles[2].fuel_type = hydrogen
    /\ response[p] = None

Scenario1 == Request(<<Vehicle("car", 2, petrol, R(10))>>, "X", BaseYear)

(***************************************************************************)
(* C2: a request whose fuel types are all known never fails, and each of   *)
(* its results has total_fuel = count * liters_per_vehicle and             *)
(* co2_kg = total_fuel * factor, the factor being 2.3477 for every         *)
(* spelling of petrol and 2.6893 for diesel; the 2-car 10-liter petrol     *)
(* request of year 2025 yields 20, 46.954, 0.046954, 100 and 0.046954.     *)
(***************************************************************************)
C2_Co2FromFactor ==
  \A p \in Procs :
    /\ (Active(p) /\ AllKnown(data[p].vehicles)) => ~Raised(p)
    /\ Returned(p) =>
         /\ \A k \in 1..Len(data[p].vehicles) :
              LET v == data[p].vehicles[k]
                  r == response[p].vehicle_results[k]
              IN  /\ r.total_fuel = RMul(R(v.count), v.liters_per_vehicle)
                  /\ r.co2_kg = RMul(r.total_fuel, SpecFactor(v.fuel_type))
         /\ data[p] = Scenario1 =>
              /\ response[p].vehicle_results[1].total_fuel = R(20)
              /\ response[p].vehicle_results[1].co2_kg = Rat(46954, 1000)
              /\ response[p].total_co2_tons = Rat(46954, 1000000)
              /\ response[p].vehicle_results[1].percent_of_total = R(100)
              /\ response[p].projected_co2_tons = Rat(46954, 1000000)

C2_Witness ==
  \E p \in Procs :
    /\ Returned(p)
    /\ Len(data[p].vehicles) = 2
    /\ data[p].vehicles[1].fuel_type = Petrol
    /\ data[p].vehicles[2].fuel_type = petrol
    /\ data[p].vehicles[1].count = 2
    /\ data[p].vehicles[2].count = 2
    /\ response[p].vehicle_results[1].co2_kg = Rat(46954, 1000)
    /\ response[p].vehicle_results[2].co2_kg = Rat(46954, 1000)

(***************************************************************************)
(* C3: in every response the co2_kg of the results add up to               *)
(* total_co2_tons * 1000.                                                  *)
(***************************************************************************)
C3_SumIsTotal ==
  \A p \in Procs :
    Returned(p) =>
      SumCo2Kg(response[p].vehicle_results) = RMul(response[p].total_co2_tons, R(1000))

C3_Witness ==
  \E p \in Procs :
    /\ Returned(p)
    /\ Len(response[p].vehicle_results) = 2
    /\ response[p].vehicle_results[1].co2_kg.num > 0
    /\ response[p].vehicle_results[2].co2_kg.num > 0
    /\ response[p].vehicle_results[1].co2_kg # response[p].vehicle_results[2].co2_kg

(***************************************************************************)
(* C4: in every response whose total_co2_tons is zero, the four percentage *)
(* fields of every result are zero (and none is a division fault).         *)
(***************************************************************************)
C4_ZeroTotalZeroPercents ==
  \A p \in Procs :
    (Returned(p) /\ response[p].total_co2_tons = Zero) =>
      \A k \in 1..Len(response[p].vehicle_results) :
        LET r == response[p].vehicle_results[k]
        IN  /\ r.percent_of_total = Zero
            /\ r.ozone_impact_percent = Zero
            /\ r.climate_change_percent = Zero
            /\ r.glacier_melt_percent = Zero

C4_Witness ==
  \E p \in Procs :
    /\ Returned(p)
    /\ response[p].total_co2_tons = Zero
    /\ Len(response[p].vehicle_results) = 2
    /\ response[p].vehicle_results[1].co2_kg # Zero
    /\ response[p].vehicle_results[1].percent_of_total = Zero

(***************************************************************************)
(* C5: in every response whose total_co2_tons is positive the              *)
(* percent_of_total of the results add up to 100; a single record gets     *)
(* 100 and two records with equal co2_kg get 50 each.                      *)
(***************************************************************************)
C5_PercentsSumTo100 ==
  \A p \in Procs :
    (Returned(p) /\ response[p].total_co2_tons.num > 0) =>
      LET rs == response[p].vehicle_results
      IN  /\ SumPercent(rs) = R(100)
          /\ Len(rs) = 1 => rs[1].percent_of_total = R(100)
          /\ (Len(rs) = 2 /\ rs[1].co2_kg = rs[2].co2_kg) =>
               rs[1].percent_of_total = R(50) /\ rs[2].percent_of_total = R(50)

C5_Witness ==
  \E p \in Procs :
    /\ Returned(p)
    /\ data[p] = EqualShareRequest
    /\ response[p].vehicle_results[1].co2_kg = response[p].vehicle_results[2].co2_kg
    /\ response[p].vehicle_results[1].percent_of_total = R(50)
    /\ response[p].vehicle_results[2].percent_of_total = R(50)

RECURSIVE Compounded(_, _)
Compounded(total, years) ==
  IF years <= 0 THEN total ELSE RMul(Compounded(total, years - 1), Rat(1005, 1000))

(***************************************************************************)
(* C6: in every response projected_co2_tons is total_co2_tons for a year   *)
(* up to 2025 and total_co2_tons compounded by 1.005 once per year past    *)
(* 2025 otherwise; a total of 10 in 2027 projects to 10.100250.            *)
(***************************************************************************)
C6_Projection ==
  \A p \in Procs :
    Returned(p) =>
      LET r == response[p]
      IN  /\ data[p].year <= 2025 => r.projected_co2_tons = r.total_co2_tons
          /\ r.projected_co2_tons = Compounded(r.total_co2_tons, data[p].year - 2025)
          /\ (data[p].year = 2027 /\ r.total_co2_tons = R(10)) =>
               r.projected_co2_tons = Rat(10100250, 1000000)

C6_Witness ==
  \E p \in Procs :
    /\ Returned(p)
    /\ data[p].year = 2027
    /\ response[p].total_co2_tons = R(10)
    /\ response[p].projected_co2_tons = Rat(10100250, 1000000)

(***************************************************************************)
(* C7: every response has one result per input record, in input order,     *)
(* with vehicle_type, fuel_type (as submitted) and count copied, and       *)
(* echoes the request's location and year.                                 *)
(***************************************************************************)
C7_CopiesInput ==
  \A p \in Procs :
    Returned(p) =>
      /\ Len(response[p].vehicle_results) = Len(data[p].vehicles)
      /\ \A k \in 1..Len(data[p].vehicles) :
           /\ response[p].vehicle_results[k].vehicle_type = data[p].vehicles[k].vehicle_type
           /\ response[p].vehicle_results[k].fuel_type = data[p].vehicles[k].fuel_type
           /\ response[p].vehicle_results[k].count = data[p].vehicles[k].count
      /\ response[p].location = data[p].location
      /\ response[p].year = data[p].year

C7_Witness ==
  \E p \in Procs :
    /\ Returned(p)
    /\ Len(data[p].vehicles) = 2
    /\ response[p].vehicle_results[1].fuel_type = Petrol
    /\ response[p].vehicle_results[1].vehicle_type = "bus"
    /\ response[p].vehicle_results[2].vehicle_type = "car"
    /\ response[p].vehicle_results[1].count # response[p].vehicle_results[2].count
    /\ response[p].location = "Y"

IsolatedOutcomes ==
  /\ EMISSION_FACTORS = FactorTable
  /\ \A p \in Procs :
       LET alone == RunAlone(FactorTable, data[p])
       IN  /\ Returned(p) =>
                alone.kind = "returned" /\ response[p] = alone.response /\ error[p] = None
           /\ Raised(p) =>
                alone.kind = "raised" /\ error[p] = alone.error /\ response[p] = None

ReturnedStays ==
  \A p \in Procs : response[p] # None => response'[p] = response[p]

(***************************************************************************)
(* C8: whatever the interleaving, the table stays as built, every finished *)
(* invocation has the outcome its request has when run alone, and a        *)
(* response, once returned, never changes.                                 *)
(***************************************************************************)
C8_Isolation == []IsolatedOutcomes /\ [][ReturnedStays]_vars

C8_Witness ==
  /\ Returned(1)
  /\ pc[2] = "loop2"
  /\ i[2] = 2
  /\ Len(data[1].vehicles) = 2
  /\ data[2] # data[1]

(***************************************************************************)
(* C9: in every response with a non-zero total, each impact percentage of  *)
(* a result is its percent_of_total times 0.12, 0.08 or 0.04, so the three *)
(* are in the ratio 3 : 2 : 1 and none exceeds percent_of_total in         *)
(* magnitude.                                                              *)
(***************************************************************************)
C9_ImpactIsScaledShare ==
  \A p \in Procs :
    (Returned(p) /\ response[p].total_co2_tons # Zero) =>
      \A k \in 1..Len(response[p].vehicle_results) :
        LET r == response[p].vehicle_results[k]
        IN  /\ r.ozone_impact_percent = RMul(r.percent_of_total, Rat(12, 100))
            /\ r.climate_change_percent = RMul(r.percent_of_total, Rat(8, 100))
            /\ r.glacier_melt_percent = RMul(r.percent_of_total, Rat(4, 100))
            /\ r.ozone_impact_percent = RMul(R(3), r.glacier_melt_percent)
            /\ r.climate_change_percent = RMul(R(2), r.glacier_melt_percent)
            /\ RLeq(RAbs(r.ozone_impact_percent), RAbs(r.percent_of_total))
            /\ RLeq(RAbs(r.climate_change_percent), RAbs(r.percent_of_total))
            /\ RLeq(RAbs(r.glacier_melt_percent), RAbs(r.percent_of_total))

C9_Witness ==
  \E p \in Procs :
    /\ Returned(p)
    /\ Len(response[p].vehicle_results) = 2
    /\ response[p].vehicle_results[1].percent_of_total = Rat(100, 3)
    /\ response[p].vehicle_results[1].ozone_impact_percent = R(4)
    /\ response[p].vehicle_results[1].climate_change_percent = Rat(8, 3)
    /\ response[p].vehicle_results[1].glacier_melt_percent = Rat(4, 3)

(***************************************************************************)
(* C10: the handler fails only on an unknown fuel type, never on a         *)
(* negative count or negative liters; when every count and every liters    *)
(* value is non-negative, the response has total_co2_tons >= 0,            *)
(* projected_co2_tons >= total_co2_tons and every percent_of_total in      *)
(* [0, 100].  (With a negative count the bounds can fail: C10_Witness.)    *)
(***************************************************************************)
C10_BoundsForNonNegativeInput ==
  \A p \in Procs :
    /\ Raised(p) => ~AllKnown(data[p].vehicles)
    /\ (Returned(p) /\ NonNegative(data[p].vehicles)) =>
         /\ response[p].total_co2_tons.num >= 0
         /\ RLeq(response[p].total_co2_tons, response[p].projected_co2_tons)
         /\ \A k \in 1..Len(response[p].vehicle_results) :
              /\ RLeq(Zero, response[p].vehicle_results[k].percent_of_total)
              /\ RLeq(response[p].vehicle_results[k].percent_of_total, R(100))

C10_Witness ==
  \E p \in Procs :
    /\ Returned(p)
    /\ \E k \in 1..Len(data[p].vehicles) : data[p].vehicles[k].count < 0
    /\ \E k \in 1..Len(response[p].vehicle_results) :
         ~RLeq(response[p].vehicle_results[k].percent_of_total, R(100))
    /\ \E k \in 1..Len(response[p].vehicle_results) :
         ~RLeq(Zero, response[p].vehicle_results[k].percent_of_total)

====
